---- MODULE Spec2Model ----
(***************************************************************************)
(* The three batch jobs of the MaritimeHackathon repository:               *)
(*   Job A  anc_before_jit.py          load_and_analyze_data               *)
(*   Job B  anc_after_jit.py           load_data .. aggregate_and_analyze  *)
(*   Job C  anc_savings_after_jit.py   calculate_emission_savings          *)
(*                                                                         *)
(* Tables are sequences of records (one record per row, one field per      *)
(* column).  Numbers are fixed point:                                      *)
(*   timestamps and durations  whole hours                                 *)
(*   per-record emissions      grams   in units of 1e-6 g                  *)
(*   Job B tonnes              tonnes  in units of 1e-12 t                 *)
(*   Job A / Job C tonnes      tonnes  in units of 1e-3 t                  *)
(* so that  x * 0.867 * 3.667  is  x * 867 * 3667  in units of 1e-6.       *)
(***************************************************************************)
EXTENDS Integers, Sequences, FiniteSets, TLC

\* ---------------------------------------------------------------- bounds
\* rows of ais_dataset.csv
MaxRecs == 2
\* rows of an aggregate table (anc_before_jit*.csv, anc_after_jit.csv)
MaxRows == 2

\* a missing cell (pandas NaN / NaT)
NaN == -1000
\* a timestamp cell that does not parse as a date
Invalid == -2000

Imos == {1, 2}
TsVals == {0, 2, 30}
FuelCats == {1, 2}

\* np.inf as a bin edge
Inf == 2000000000

\* ------------------------------------------------------- program constants
CarbonFraction == 867
CO2PerCarbon == 3667
RawCapHours == 24
JitCapHours == 3
DefaultHours == 1

\* job, mode        which script, and whether it is run as a script ("script":
\*                  python <file>) or its top function is called ("call")
\* pc, exit, err    position, how the run ended, the exception that ended it
\* printedErr       an except block of the job has printed the error message
\* ais .. after     the input tables as read
\* durFallback      calculate_duration took its except branch
\* processed        main's processed_data; df: merged_data / emissions_data
\* out              final_emissions / emissions_df / merged, with its columns
\* written          the output files written so far, each with its columns
VARIABLES job, mode, pc, exit, err, printedErr,
          ais, tsCol, auxF, boilF, before, after,
          durFallback, processed, df, all_imos, out, written

vars == <<job, mode, pc, exit, err, printedErr,
          ais, tsCol, auxF, boilF, before, after,
          durFallback, processed, df, all_imos, out, written>>

\* ------------------------------------------------------------ dataframe helpers
Min(a, b) == IF a <= b THEN a ELSE b

\* Series.fillna(d)
FillNa(v, d) == IF v = NaN THEN d ELSE v

\* lexicographic order on the sort keys <<k1, k2, k3>>
KeyLess(a, b) ==
    \/ a[1] < b[1]
    \/ a[1] = b[1] /\ a[2] < b[2]
    \/ a[1] = b[1] /\ a[2] = b[2] /\ a[3] < b[3]

\* rows of s in ascending order of their keys k (k[i] is the key of s[i]);
\* rows with equal keys keep their order
SortedBy(s, k) ==
    LET n == Len(s)
        rank(i) == Cardinality({j \in 1..n :
                       KeyLess(k[j], k[i]) \/ (k[j] = k[i] /\ j < i)}) + 1
    IN  [r \in 1..n |-> s[CHOOSE i \in 1..n : rank(i) = r]]

\* Series.unique(): the distinct values in order of first appearance
RECURSIVE Unique(_)
Unique(s) ==
    IF s = <<>> THEN <<>>
    ELSE LET front == Unique(SubSeq(s, 1, Len(s) - 1))
             last == s[Len(s)]
         IN  IF \E i \in 1..Len(front) : front[i] = last
             THEN front ELSE Append(front, last)

RECURSIVE SumSeq(_)
SumSeq(s) == IF s = <<>> THEN 0 ELSE s[1] + SumSeq(Tail(s))

RECURSIVE Concat(_)
Concat(ss) == IF ss = <<>> THEN <<>> ELSE ss[1] \o Concat(Tail(ss))

\* ------------------------------------------------------------ Job B: durations
\* pd.to_datetime(..., errors='coerce')
ToDatetime(cell) == IF cell = Invalid \/ cell = NaN THEN NaN ELSE cell

\* the rows left in file order
SortImoTimestampSkipped(d) == d

\* df.sort_values(['imo', 'timestamp']), NaT last
SortImoTimestamp(d) ==
    SortedBy(d, [i \in 1..Len(d) |->
        <<d[i].imo, IF d[i].ts = NaN THEN 1 ELSE 0, d[i].ts>>])

\* df.groupby('imo')['timestamp'].diff(), in hours
GroupDiff(d) ==
    [i \in 1..Len(d) |->
        LET prevs == {j \in 1..(i - 1) : d[j].imo = d[i].imo}
        IN  IF prevs = {} THEN NaN
            ELSE LET p == CHOOSE j \in prevs : \A q \in prevs : q <= j
                 IN  IF d[i].ts = NaN \/ d[p].ts = NaN THEN NaN
                     ELSE d[i].ts - d[p].ts]

\* no cap on the raw duration
CapRawMissing(h) == h

CapRaw(h) == IF h > RawCapHours THEN RawCapHours ELSE h

\* calculate_duration(df); hasTs: 'timestamp' in df.columns; fails: the try
\* block raises (after the sort) and the except branch sets 1 hour everywhere
CalculateDuration(d, hasTs, fails) ==
    IF fails
    THEN LET s == SortImoTimestamp(d)
         IN  [i \in 1..Len(s) |-> [s[i] EXCEPT !.dur = DefaultHours]]
    ELSE IF hasTs
    THEN LET s == SortImoTimestamp(d)
             g == GroupDiff(s)
         IN  [i \in 1..Len(s) |->
                 [s[i] EXCEPT !.dur = CapRaw(FillNa(g[i], DefaultHours))]]
    ELSE [i \in 1..Len(d) |-> [d[i] EXCEPT !.dur = CapRaw(DefaultHours)]]

\* ------------------------------------------------------------ Job B: factors
\* pd.merge(left, factors, on='fuel_category', how='left'): a row of left once
\* per factor row of its fuel category, once with NaN when there is none
MergeAux(d, f) ==
    Concat([i \in 1..Len(d) |->
        LET m == SelectSeq(f, LAMBDA r : r.fuel = d[i].fuel)
        IN  IF m = <<>> THEN <<[d[i] EXCEPT !.sfc_ae = NaN]>>
            ELSE [k \in 1..Len(m) |-> [d[i] EXCEPT !.sfc_ae = m[k].sfc]]])

MergeBoiler(d, f) ==
    Concat([i \in 1..Len(d) |->
        LET m == SelectSeq(f, LAMBDA r : r.fuel = d[i].fuel)
        IN  IF m = <<>> THEN <<[d[i] EXCEPT !.sfc_ab = NaN]>>
            ELSE [k \in 1..Len(m) |-> [d[i] EXCEPT !.sfc_ab = m[k].sfc]]])

\* merge_emission_factors
MergeEmissionFactors(d, aux, boil) ==
    LET m == MergeBoiler(MergeAux(d, aux), boil)
    IN  [i \in 1..Len(m) |->
            [m[i] EXCEPT !.sfc_ae = FillNa(@, 0), !.sfc_ab = FillNa(@, 0)]]

\* ------------------------------------------------------------ Job B: emissions
\* load * hours * sfc * 0.867 * 3.667, in units of 1e-6 g
EmissionGrams(load, hours, sfc) ==
    load * hours * sfc * CarbonFraction * CO2PerCarbon

\* grams / 1_000_000: 1e-6 g is 1e-12 t, the numeral is unchanged
GramsToTonnes(g) == g

JitClip(h) == Min(h, JitCapHours)

\* calculate_emissions_after_jit, one row
EmissionsRow(r) ==
    LET jit == JitClip(r.dur)
        a == IF r.ael # NaN /\ r.sfc_ae # NaN
             THEN EmissionGrams(r.ael, jit, r.sfc_ae) ELSE 0
        b == IF r.abl # NaN /\ r.sfc_ab # NaN
             THEN EmissionGrams(r.abl, jit, r.sfc_ab) ELSE 0
    IN  [r EXCEPT !.jit = jit, !.aux = a, !.boil = b, !.grams = a + b,
                  !.tonnes = GramsToTonnes(a + b)]

CalculateEmissionsAfterJit(d) == [i \in 1..Len(d) |-> EmissionsRow(d[i])]

\* ------------------------------------------------------------ frames
\* A frame is a table with its column list: [cols |-> <<names>>, rows |-> <<records>>]

\* df[name] = vals  (a new column is appended, an existing one overwritten)
SetColumn(f, name, vals) ==
    [cols |-> IF \E i \in 1..Len(f.cols) : f.cols[i] = name
              THEN f.cols ELSE Append(f.cols, name),
     rows |-> [i \in 1..Len(f.rows) |-> (name :> vals[i]) @@ f.rows[i]]]

\* df.sort_values('imo')
SortImo(f) ==
    [f EXCEPT !.rows = SortedBy(f.rows,
        [i \in 1..Len(f.rows) |-> <<f.rows[i].imo, 0, 0>>])]

\* ------------------------------------------------------------ range bucketer
\* v > e * scale, without forming e * scale
Above(v, scale, e) ==
    IF e = Inf THEN FALSE
    ELSE IF e = -Inf THEN TRUE
    ELSE (v \div scale) > e \/ ((v \div scale) = e /\ (v % scale) > 0)

\* pd.cut(v, bins=edges, labels=labels): bin i is (edges[i], edges[i+1]];
\* a value in no bin gets NaN.  v is in units of 1/scale of the edges' unit.
Cut(v, scale, edges, labels) ==
    LET hit == {i \in 1..Len(labels) :
                   Above(v, scale, edges[i]) /\ ~Above(v, scale, edges[i + 1])}
    IN  IF hit = {} THEN "NaN" ELSE labels[CHOOSE i \in hit : TRUE]

\* bins=[0, 0.001, 1, 10, 50, 100, np.inf] in units of 1e-3 t
EmissionBins == <<0, 1, 1000, 10000, 50000, 100000, Inf>>
EmissionLabels == <<"Zero", "0-1", "1-10", "10-50", "50-100", "100+">>
\* bins=[-np.inf, -0.001, 0.001, 1, 10, 50, 100, np.inf] in units of 1e-3 t
SavingsBins == <<-Inf, -1, 1, 1000, 10000, 50000, 100000, Inf>>
SavingsLabels == <<"Negative", "Zero", "0-1", "1-10", "10-50", "50-100", "100+">>

\* units of 1e-12 t per 1e-3 t
PicoPerMilli == 1000 * 1000 * 1000

\* ------------------------------------------------------------ Job B: aggregation
\* the group's last row in place of the group's sum
GroupLast(d, imo) ==
    LET g == SelectSeq(d, LAMBDA r : r.imo = imo)
    IN  IF g = <<>> THEN NaN ELSE g[Len(g)].tonnes

\* data.groupby('imo')['total_emissions_tonnes_after_jit'].sum() for one imo;
\* NaN when the imo has no group
GroupSum(d, imo) ==
    LET g == SelectSeq(d, LAMBDA r : r.imo = imo)
    IN  IF g = <<>> THEN NaN
        ELSE SumSeq([i \in 1..Len(g) |-> g[i].tonnes])

\* lines 126-134: group, left-merge onto all_imos, fillna(0), rename, sort
FinalEmissions(d, imos) ==
    SortImo([cols |-> <<"imo", "anc_after_jit">>,
             rows |-> [i \in 1..Len(imos) |->
                 [imo |-> imos[i],
                  anc_after_jit |-> FillNa(GroupSum(d, imos[i]), 0)]]])

\* lines 149-153
WithEmissionRange(f, col, scale) ==
    SetColumn(f, "emission_range",
        [i \in 1..Len(f.rows) |->
            Cut(f.rows[i][col], scale, EmissionBins, EmissionLabels)])

\* DataFrame.to_csv(name, index=False): the file holds the frame's columns
ToCsv(f, name) == [name |-> name, cols |-> f.cols]

\* the files fs are written in order; the last `lost` of them are not, a write
\* having raised
WriteAllBut(fs, lost) == SubSeq(fs, 1, Len(fs) - lost)

\* ------------------------------------------------------------ inputs
\* rows of ais_dataset.csv: a row varies its vessel and timestamp (nominal loads,
\* fuel category 1), or its loads and fuel category (vessel 1, no usable timestamp)
TrackRows == [imo : Imos, ts : TsVals \cup {Invalid}, ael : {1}, abl : {1}, fuel : {1}]
LoadRows == [imo : {1}, ts : {Invalid}, ael : {NaN, 1}, abl : {NaN, 1}, fuel : FuelCats]
AisRows == TrackRows \cup LoadRows

SeqsUpTo(S, n) == UNION {[1..k -> S] : k \in 0..n}

AisTables == SeqsUpTo(AisRows, MaxRecs)
\* an emission-factor table: up to two rows in category order, category 1 first;
\* it may lack a category and it may repeat one
FactorTables(sfc) ==
    {t \in SeqsUpTo([fuel : FuelCats, sfc : {sfc}], 2) :
        /\ Len(t) >= 1 => t[1].fuel = 1
        /\ Len(t) = 2 => t[1].fuel <= t[2].fuel}
AuxTables == FactorTables(2)
BoilerTables == FactorTables(3)

\* rows of anc_before_jit.csv (Job A), of anc_before_jit_cleaned.csv and of
\* anc_after_jit.csv (Job C), values in units of 1e-3 t; a NaN cell is an empty one
EmissionsTables == SeqsUpTo([imo : Imos, anc_before_jit : {0, 1, 5}], MaxRows)
BeforeTables == SeqsUpTo([imo : Imos, anc_before_jit : {NaN, 5}], MaxRows)
AfterTables == SeqsUpTo([imo : Imos, anc_after_jit : {NaN, 7}], MaxRows)

\* a row of the AIS table as the working frame holds it; a column that does not
\* exist yet is NaN
DfRow(r) ==
    [imo |-> r.imo, ts |-> r.ts, ael |-> r.ael, abl |-> r.abl, fuel |-> r.fuel,
     dur |-> NaN, jit |-> NaN, sfc_ae |-> NaN, sfc_ab |-> NaN,
     aux |-> NaN, boil |-> NaN, grams |-> NaN, tonnes |-> NaN]

NoFrame == [cols |-> <<>>, rows |-> <<>>]

\* ------------------------------------------------------------ Job A
\* Series.round(6): a multiple of 1e-3 is unchanged
Round6(v) == v

\* formatted_df = emissions_df[['imo', 'anc_before_jit']].copy(), rounded
FormattedDf(f) ==
    [cols |-> <<"imo", "anc_before_jit">>,
     rows |-> [i \in 1..Len(f.rows) |->
                 [imo |-> f.rows[i].imo,
                  anc_before_jit |-> IF f.rows[i].anc_before_jit = NaN THEN NaN
                                     ELSE Round6(f.rows[i].anc_before_jit)]]]

\* emissions_df.groupby('emission_range').agg(...): its columns only
RangeSummary(f) ==
    [cols |-> <<"emission_range", "imo.count", "anc_before_jit.sum",
                "anc_before_jit.mean", "anc_before_jit.min", "anc_before_jit.max">>,
     rows |-> <<>>]

\* lines 13-31: sort by imo, add the emission_range column.  NaN is in no bin.
AnalyzeBefore(t) ==
    LET f == SortImo([cols |-> <<"imo", "anc_before_jit">>, rows |-> t])
    IN  SetColumn(f, "emission_range",
            [i \in 1..Len(f.rows) |->
                IF f.rows[i].anc_before_jit = NaN THEN "NaN"
                ELSE Cut(f.rows[i].anc_before_jit, 1, EmissionBins, EmissionLabels)])

\* ------------------------------------------------------------ Job C
\* sorted distinct keys of both tables
KeysOf(b, a) ==
    LET ks == {b[i].imo : i \in 1..Len(b)} \cup {a[i].imo : i \in 1..Len(a)}
        RECURSIVE Asc(_)
        Asc(S) == IF S = {} THEN <<>>
                  ELSE LET m == CHOOSE x \in S : \A y \in S : x <= y
                       IN  <<m>> \o Asc(S \ {m})
    IN  Asc(ks)

\* pd.merge(before_jit, after_jit, on='imo', how='outer'): per key, every pairing
\* of its rows on the two sides; a key on one side only gets NaN for the other
OuterMerge(b, a) ==
    LET ks == KeysOf(b, a)
        rowsOf(k) ==
            LET lb == SelectSeq(b, LAMBDA r : r.imo = k)
                la == SelectSeq(a, LAMBDA r : r.imo = k)
            IN  IF la = <<>>
                THEN [i \in 1..Len(lb) |->
                        [imo |-> k, anc_before_jit |-> lb[i].anc_before_jit,
                         anc_after_jit |-> NaN]]
                ELSE IF lb = <<>>
                THEN [j \in 1..Len(la) |->
                        [imo |-> k, anc_before_jit |-> NaN,
                         anc_after_jit |-> la[j].anc_after_jit]]
                ELSE Concat([i \in 1..Len(lb) |-> [j \in 1..Len(la) |->
                        [imo |-> k, anc_before_jit |-> lb[i].anc_before_jit,
                         anc_after_jit |-> la[j].anc_after_jit]]])
    IN  [cols |-> <<"imo", "anc_before_jit", "anc_after_jit">>,
         rows |-> Concat([n \in 1..Len(ks) |-> rowsOf(ks[n])])]

\* a negative difference clamped to 0
SavingsClamped(b, a) == IF b - a < 0 THEN 0 ELSE b - a

\* before - after
Savings(b, a) == b - a

\* lines 39-49: merge, fillna(0) on both sides, subtract, sort by imo
MergedSavings(b, a) ==
    LET m == OuterMerge(b, a)
        filled == [m EXCEPT !.rows = [i \in 1..Len(m.rows) |->
                      [m.rows[i] EXCEPT !.anc_before_jit = FillNa(@, 0),
                                        !.anc_after_jit = FillNa(@, 0)]]]
    IN  SortImo(SetColumn(filled, "anc_savings_after_jit",
            [i \in 1..Len(filled.rows) |->
                Savings(filled.rows[i].anc_before_jit, filled.rows[i].anc_after_jit)]))

\* lines 68-72
WithSavingsRange(f) ==
    SetColumn(f, "savings_range",
        [i \in 1..Len(f.rows) |->
            Cut(f.rows[i].anc_savings_after_jit, 1, SavingsBins, SavingsLabels)])

\* summary_stats: columns Metric, Value
SummaryStats(f) == [cols |-> <<"Metric", "Value">>, rows |-> <<>>]

\* ------------------------------------------------------------ state machine
Init ==
    /\ job \in {"A", "B", "C"}
    /\ mode \in {"script", "call"}
    /\ pc = IF mode = "script" THEN "guard" ELSE "main"
    /\ exit = "running"
    /\ err = "none"
    /\ printedErr = FALSE
    /\ ais = <<>> /\ tsCol = TRUE /\ auxF = <<>> /\ boilF = <<>>
    /\ before = <<>> /\ after = <<>>
    /\ durFallback = FALSE /\ processed = <<>>
    /\ df = <<>> /\ all_imos = <<>> /\ out = NoFrame /\ written = <<>>

\* the run ends with exception e propagating out of the entry point
Raise(e, printed) ==
    /\ pc' = "exited"
    /\ exit' = "exception"
    /\ err' = e
    /\ printedErr' = printed

\* the __main__ guard of anc_before_jit.py and anc_after_jit.py:
\* `if name == "__main__"` reads the undefined global `name`
EntryGuardAB ==
    /\ pc = "guard" /\ job \in {"A", "B"}
    /\ Raise("NameError", FALSE)
    /\ UNCHANGED <<job, mode, ais, tsCol, auxF, boilF, before, after,
                   durFallback, processed, df, all_imos, out, written>>

\* load_data(): the three files are read, or the error is printed and re-raised
LoadData ==
    /\ pc = "main" /\ job = "B"
    /\ \/ /\ Raise("IOError", TRUE)
          /\ UNCHANGED <<ais, tsCol, auxF, boilF>>
       \/ /\ tsCol' \in BOOLEAN
          /\ \E t \in AisTables :
                ais' = IF tsCol' THEN t
                       ELSE [i \in 1..Len(t) |-> [t[i] EXCEPT !.ts = NaN]]
          /\ auxF' \in AuxTables
          /\ boilF' \in BoilerTables
          /\ pc' = "preprocess"
          /\ UNCHANGED <<exit, err, printedErr>>
    /\ UNCHANGED <<job, mode, before, after, durFallback, processed, df, all_imos,
                   out, written>>

\* preprocess_data(ais_data), calculate_duration included
PreprocessData ==
    /\ pc = "preprocess"
    /\ IF ~tsCol
       THEN /\ Raise("KeyError", FALSE)
            /\ UNCHANGED <<durFallback, processed, all_imos>>
       ELSE /\ \E fails \in BOOLEAN :
                 /\ durFallback' = fails
                 /\ processed' = CalculateDuration(
                         [i \in 1..Len(ais) |->
                             [DfRow(ais[i]) EXCEPT !.ts = ToDatetime(@),
                                                   !.ael = FillNa(@, 0),
                                                   !.abl = FillNa(@, 0)]],
                         TRUE, fails)
            /\ all_imos' = Unique([i \in 1..Len(ais) |-> ais[i].imo])
            /\ pc' = "merge"
            /\ UNCHANGED <<exit, err, printedErr>>
    /\ UNCHANGED <<job, mode, ais, tsCol, auxF, boilF, before, after, df, out,
                   written>>

\* merge_emission_factors(processed_data, aux_engine_factors, boiler_engine_factors)
MergeFactors ==
    /\ pc = "merge"
    /\ df' = MergeEmissionFactors(processed, auxF, boilF)
    /\ pc' = "emissions"
    /\ UNCHANGED <<job, mode, exit, err, printedErr, ais, tsCol, auxF, boilF,
                   before, after, durFallback, processed, all_imos, out, written>>

\* calculate_emissions_after_jit(merged_data)
CalculateEmissions ==
    /\ pc = "emissions"
    /\ df' = CalculateEmissionsAfterJit(df)
    /\ pc' = "aggregate"
    /\ UNCHANGED <<job, mode, exit, err, printedErr, ais, tsCol, auxF, boilF,
                   before, after, durFallback, processed, all_imos, out, written>>

\* aggregate_and_analyze_emissions, then main's last print and return
AggregateAndAnalyze ==
    /\ pc = "aggregate"
    /\ LET f == WithEmissionRange(FinalEmissions(df, all_imos),
                                  "anc_after_jit", PicoPerMilli)
           files == <<ToCsv(f, "anc_after_jit.csv"),
                      ToCsv(f, "emissions_after_jit_detailed.csv")>>
       IN  /\ out' = f
           /\ \E lost \in 0..Len(files) :
                 /\ written' = WriteAllBut(files, lost)
                 /\ IF lost > 0
                    THEN Raise("IOError", FALSE)
                    ELSE /\ pc' = "exited"
                         /\ exit' = "normal"
                         /\ UNCHANGED <<err, printedErr>>
    /\ UNCHANGED <<job, mode, ais, tsCol, auxF, boilF, before, after,
                   durFallback, processed, df, all_imos>>

\* the __main__ guard of anc_savings_after_jit.py reads __name__
EntryGuardC ==
    /\ pc = "guard" /\ job = "C"
    /\ pc' = "main"
    /\ UNCHANGED <<job, mode, exit, err, printedErr, ais, tsCol, auxF, boilF,
                   before, after, durFallback, processed, df, all_imos, out, written>>

\* load_and_analyze_data(); a caller sees its return or its exception
LoadAndAnalyzeData ==
    /\ pc = "main" /\ job = "A"
    /\ \/ /\ Raise("IOError", TRUE)
          /\ UNCHANGED <<before, out, written>>
       \/ \E t \in EmissionsTables :
            LET f == AnalyzeBefore(t)
                files == <<ToCsv(f, "emissions_detailed_analysis.csv"),
                           ToCsv(FormattedDf(f), "emissions_simple_list.csv"),
                           ToCsv(RangeSummary(f), "emissions_range_summary.csv")>>
            IN  /\ before' = t
                /\ out' = f
                /\ \E lost \in 0..Len(files) :
                      /\ written' = WriteAllBut(files, lost)
                      /\ IF lost > 0
                         THEN Raise("IOError", TRUE)
                         ELSE /\ pc' = "exited"
                              /\ exit' = "normal"
                              /\ UNCHANGED <<err, printedErr>>
    /\ UNCHANGED <<job, mode, ais, tsCol, auxF, boilF, after,
                   durFallback, processed, df, all_imos>>

\* the exception always reaches the caller, as if the __main__ block had no handler
SavingsRaiseUnhandled(e) ==
    /\ err' = e
    /\ printedErr' = TRUE
    /\ pc' = "exited"
    /\ exit' = "exception"

\* how calculate_emission_savings() ends: run as a script its exception reaches
\* the handler of the __main__ block, called directly it reaches the caller
SavingsRaise(e) ==
    /\ err' = e
    /\ printedErr' = TRUE
    /\ IF mode = "script"
       THEN pc' = "handler" /\ exit' = exit
       ELSE pc' = "exited" /\ exit' = "exception"

\* calculate_emission_savings(), safe_read_csv included
CalculateEmissionSavings ==
    /\ pc = "main" /\ job = "C"
    /\ \/ /\ SavingsRaise("ValueError")
          /\ UNCHANGED <<before, after, out, written>>
       \/ \E b \in BeforeTables, a \in AfterTables :
            LET f == WithSavingsRange(MergedSavings(b, a))
                files == <<ToCsv(f, "anc_savings_after_jit.csv"),
                           ToCsv(SummaryStats(f), "savings_summary_stats.csv")>>
            IN  /\ before' = b
                /\ after' = a
                /\ out' = f
                /\ \E lost \in 0..Len(files) :
                      /\ written' = WriteAllBut(files, lost)
                      /\ IF lost > 0
                         THEN SavingsRaise("IOError")
                         ELSE /\ pc' = IF mode = "script" THEN "handler" ELSE "exited"
                              /\ exit' = IF mode = "script" THEN exit ELSE "normal"
                              /\ UNCHANGED <<err, printedErr>>
    /\ UNCHANGED <<job, mode, ais, tsCol, auxF, boilF,
                   durFallback, processed, df, all_imos>>

\* the try / except / else of the __main__ block of anc_savings_after_jit.py:
\* either way a message is printed and the script runs off its end
MainHandlerC ==
    /\ pc = "handler"
    /\ pc' = "exited"
    /\ exit' = "normal"
    /\ UNCHANGED <<job, mode, err, printedErr, ais, tsCol, auxF, boilF,
                   before, after, durFallback, processed, df, all_imos, out, written>>

Next ==
    \/ EntryGuardAB
    \/ EntryGuardC
    \/ LoadAndAnalyzeData
    \/ LoadData
    \/ PreprocessData
    \/ MergeFactors
    \/ CalculateEmissions
    \/ AggregateAndAnalyze
    \/ CalculateEmissionSavings
    \/ MainHandlerC

\* ------------------------------------------------------------ properties
\* the output files of each job, in the order it writes them
Outputs(j) ==
    CASE j = "A" -> <<"emissions_detailed_analysis.csv", "emissions_simple_list.csv",
                      "emissions_range_summary.csv">>
      [] j = "B" -> <<"anc_after_jit.csv", "emissions_after_jit_detailed.csv">>
      [] j = "C" -> <<"anc_savings_after_jit.csv", "savings_summary_stats.csv">>

WrittenNames == [i \in 1..Len(written) |-> written[i].name]

\* the job has built its aggregate table
HasOutput == out # NoFrame

RowsFor(f, v) == Cardinality({i \in 1..Len(f.rows) : f.rows[i].imo = v})

ImosOf(t) == {t[i].imo : i \in 1..Len(t)}

\* C1 (Job B part): anc_after_jit has exactly one row for every IMO of the AIS
\* table and no row for any other IMO.
C1_JobB_OneRowPerImo ==
    (job = "B" /\ HasOutput) =>
        \A v \in Imos : RowsFor(out, v) = IF v \in ImosOf(ais) THEN 1 ELSE 0

\* C1: for every IMO present in an input table of the job, the job's aggregate
\* output has exactly one row for that IMO (Job B: anc_after_jit from the AIS
\* rows; Job C: the outer join of the before and after tables).
C1_OneRowPerImo ==
    /\ C1_JobB_OneRowPerImo
    /\ (job = "C" /\ HasOutput) =>
          \A v \in ImosOf(before) \cup ImosOf(after) : RowsFor(out, v) = 1

\* the factor a table gives a fuel category, 0 when it gives none
SfcOf(t, c) ==
    IF \E i \in 1..Len(t) : t[i].fuel = c
    THEN t[CHOOSE i \in 1..Len(t) : t[i].fuel = c].sfc
    ELSE 0

\* (ael x d x sfc_ae + abl x d x sfc_ab) x 0.867 x 3.667 / 1,000,000 for one
\* preprocessed record, d its duration capped at 3 hours
ExpectedTonnes(r) ==
    LET d == IF r.dur > 3 THEN 3 ELSE r.dur
    IN  (r.ael * d * SfcOf(auxF, r.fuel) + r.abl * d * SfcOf(boilF, r.fuel))
            * 867 * 3667

ExpectedForImo(v) ==
    LET g == SelectSeq(processed, LAMBDA r : r.imo = v)
    IN  SumSeq([i \in 1..Len(g) |-> ExpectedTonnes(g[i])])

AncMatchesFormula ==
    \A i \in 1..Len(out.rows) :
        out.rows[i].anc_after_jit = ExpectedForImo(out.rows[i].imo)

\* no fuel category on two rows of the table
UniqueKeys(t) == \A i, j \in 1..Len(t) : t[i].fuel = t[j].fuel => i = j

\* C2 as stated: whatever the two emission-factor tables hold, each vessel's
\* anc_after_jit is the sum over its AIS records, each once, of the formula.
C2_SumOfFormula_AnyFactors ==
    (job = "B" /\ HasOutput) => AncMatchesFormula

\* C2 amended: when neither emission-factor table lists a fuel category twice,
\* each vessel's anc_after_jit is the sum over its AIS records, each once, of
\* (ael x d x sfc_ae + abl x d x sfc_ab) x 0.867 x 3.667 / 1,000,000.
C2_SumOfFormula ==
    (job = "B" /\ HasOutput /\ UniqueKeys(auxF) /\ UniqueKeys(boilF)) =>
        AncMatchesFormula

\* a vessel with two records, one of them capped at 3 hours, both factors known
C2_Witness ==
    /\ job = "B" /\ HasOutput /\ UniqueKeys(auxF) /\ UniqueKeys(boilF)
    /\ Len(auxF) = 2 /\ Len(boilF) >= 1
    /\ \E i \in 1..Len(out.rows) :
          /\ out.rows[i].anc_after_jit > 0
          /\ Len(SelectSeq(processed, LAMBDA r : r.imo = out.rows[i].imo)) >= 2
          /\ \E j \in 1..Len(processed) :
                processed[j].imo = out.rows[i].imo /\ processed[j].dur > 3

\* C3: in Job C every row of the outer join has anc_savings_after_jit =
\* anc_before_jit - anc_after_jit, each side being the vessel's value in its
\* table (an empty cell as 0) and 0 when the vessel is not in that table; a
\* negative difference is kept.
C3_SavingsExact ==
    (job = "C" /\ HasOutput) =>
        \A i \in 1..Len(out.rows) :
            LET r == out.rows[i] IN
            /\ r.anc_savings_after_jit = r.anc_before_jit - r.anc_after_jit
            /\ IF r.imo \in ImosOf(before)
               THEN \E j \in 1..Len(before) :
                       /\ before[j].imo = r.imo
                       /\ r.anc_before_jit = FillNa(before[j].anc_before_jit, 0)
               ELSE r.anc_before_jit = 0
            /\ IF r.imo \in ImosOf(after)
               THEN \E j \in 1..Len(after) :
                       /\ after[j].imo = r.imo
                       /\ r.anc_after_jit = FillNa(after[j].anc_after_jit, 0)
               ELSE r.anc_after_jit = 0

\* one vessel only in the before table keeps its emissions as savings, another
\* has negative savings
C3_Witness ==
    /\ job = "C" /\ HasOutput
    /\ \E i \in 1..Len(out.rows) :
          /\ out.rows[i].imo \notin ImosOf(after)
          /\ out.rows[i].anc_before_jit = 5
          /\ out.rows[i].anc_after_jit = 0
          /\ out.rows[i].anc_savings_after_jit = 5
    /\ \E i \in 1..Len(out.rows) : out.rows[i].anc_savings_after_jit < 0

\* input or output trouble met by the run: a file that cannot be read or
\* written, a table without its timestamp column
InputFault == err \in {"IOError", "ValueError", "KeyError"}

AllWritten == WrittenNames = Outputs(job)

\* C4: run as a script on readable, well-formed input, a job that has ended has
\* run its pipeline to completion and written all of its output files.
C4_ScriptCompletes ==
    (mode = "script" /\ pc = "exited" /\ ~InputFault) =>
        (exit = "normal" /\ AllWritten)

\* calculate_emissions_after_jit has run on the merged table
EmissionsComputed == job = "B" /\ pc \in {"aggregate", "exited"} /\ df # <<>>

\* C5: after the duration derivation every record's activity_duration_hours is
\* at most 24, and every record's jit_activity_duration_hours is at most 3.
C5_DurationCaps ==
    /\ \A i \in 1..Len(processed) :
          processed[i].dur # NaN /\ processed[i].dur <= 24
    /\ \A i \in 1..Len(df) : df[i].dur # NaN /\ df[i].dur <= 24
    /\ EmissionsComputed =>
          \A i \in 1..Len(df) : df[i].jit # NaN /\ df[i].jit <= 3

\* a gap of more than 24 hours between two records of a vessel, capped twice
C5_Witness ==
    /\ EmissionsComputed
    /\ \E i, j \in 1..Len(processed) :
          /\ processed[i].imo = processed[j].imo
          /\ processed[i].ts # NaN /\ processed[j].ts # NaN
          /\ processed[j].ts - processed[i].ts > 24
          /\ processed[j].dur = 24
    /\ \E i \in 1..Len(df) : df[i].dur = 24 /\ df[i].jit = 3

\* C6 (with a timestamp column): a record without a valid timestamp has
\* duration 1, and after a failed derivation every record has duration 1.
C6_WithTimestampColumn ==
    /\ \A i \in 1..Len(processed) :
          processed[i].ts = NaN => processed[i].dur = 1
    /\ durFallback => \A i \in 1..Len(processed) : processed[i].dur = 1

\* C6: a record's duration is 1 hour whenever its timestamp is absent or
\* invalid, also when the AIS table has no timestamp column (the job then goes
\* on with duration 1 for every record), and when the derivation fails every
\* record's duration is 1 hour.
C6_DefaultDuration ==
    /\ C6_WithTimestampColumn
    /\ (job = "B" /\ ~tsCol /\ pc # "preprocess") =>
          /\ err # "KeyError"
          /\ Len(processed) = Len(ais)
          /\ \A i \in 1..Len(processed) : processed[i].dur = 1

\* C7 as stated: a run that has ended either completed (normal exit, no error,
\* all output files written) or ended with an unhandled exception, and in
\* neither case with only some of its output files written.
C7_AllOrException ==
    pc = "exited" =>
        \/ exit = "normal" /\ err = "none" /\ AllWritten
        \/ exit = "exception" /\ err # "none"
              /\ (written = <<>> \/ AllWritten)

IsPrefix(s, t) == Len(s) <= Len(t) /\ s = SubSeq(t, 1, Len(s))

\* C7 amended: a run that meets no error ends normally with all of its output
\* files written; a run that meets an error has written a proper prefix of its
\* output files (in writing order) and ends with the unhandled exception,
\* except Job C run as a script, which has printed the error message and ends
\* as a normal process exit.
C7_CompleteOrFailed ==
    pc = "exited" =>
        /\ IsPrefix(WrittenNames, Outputs(job))
        /\ err = "none" => (exit = "normal" /\ AllWritten)
        /\ err # "none" =>
              /\ Len(written) < Len(Outputs(job))
              /\ IF job = "C" /\ mode = "script"
                 THEN exit = "normal" /\ printedErr
                 ELSE exit = "exception"

\* Job C run as a script fails on its second file and still exits normally
C7_Witness ==
    /\ pc = "exited" /\ job = "C" /\ mode = "script"
    /\ err = "IOError" /\ exit = "normal" /\ printedErr
    /\ Len(written) = 1

\* C8: in every job the range bucketer gives a value of exactly 0 the label
\* "Zero".
C8_ZeroInZeroBucket ==
    HasOutput =>
        \A i \in 1..Len(out.rows) :
            LET r == out.rows[i] IN
            /\ (job = "A" /\ r.anc_before_jit = 0) => r.emission_range = "Zero"
            /\ (job = "B" /\ r.anc_after_jit = 0) => r.emission_range = "Zero"
            /\ (job = "C" /\ r.anc_savings_after_jit = 0) => r.savings_range = "Zero"

\* C8 (Job C part): the savings bucketer gives 0 the label "Zero".
C8_JobC_ZeroInZeroBucket ==
    (job = "C" /\ HasOutput) =>
        \A i \in 1..Len(out.rows) :
            out.rows[i].anc_savings_after_jit = 0 => out.rows[i].savings_range = "Zero"

C10_PersistedColumns ==
    \A i \in 1..Len(written) :
        /\ written[i].name \in {"anc_after_jit.csv", "emissions_after_jit_detailed.csv"}
              => written[i].cols = <<"imo", "anc_after_jit">>
        /\ written[i].name = "anc_savings_after_jit.csv"
              => written[i].cols = <<"imo", "anc_before_jit", "anc_after_jit",
                                     "anc_savings_after_jit">>

Spec == Init /\ [][Next]_vars
====
